---- MODULE Spec2Model ----
(* A model of src/file.py: PicoDuckySetup, the provisioning tool that clones a  *)
(* repository, flashes two UF2 artifacts onto the bootloader volume and copies  *)
(* the project files onto the runtime volume, with a persisted step ledger      *)
(* (setup_state.json).  The process is invoked repeatedly (MaxRuns times); it   *)
(* can end in DONE, in FAILED, or be terminated externally at any point.        *)
(* Time is counted in seconds and advances only in time.sleep.                  *)
EXTENDS Integers, Sequences, FiniteSets, TLC

\* ---------------------------------------------------------------- bounds
\* Number of invocations of the tool that a behaviour holds.
MaxRuns == 2

\* ------------------------------------------------------- program constants
\* wait_for_drive(drive_path, timeout=30)
Timeout == 30
\* time.sleep(1) at the end of one polling round
PollInterval == 1
\* time.sleep(2) after the drive has been detected
SettleDelay == 2

Steps == {"repo_setup", "device_flashed", "files_copied"}

\* config["files"], in dictionary order
Files == <<"flash_nuke.uf2", "circuitpython.uf2">>

FileSet == {Files[i] : i \in 1..Len(Files)}

\* config["drives"]
Drives == {"bootloader", "circuitpy"}

\* What the operating system reports for a volume path: absent, present but no
\* mount point (a plain directory or file at that path), or a mounted volume.
DriveStatus == {"absent", "plain", "mounted"}

\* The states each path is observed in: the bootloader volume comes and goes
\* with the board; the runtime path may also be a left-over plain directory.
StatusOf(d) == IF d = "bootloader" THEN {"absent", "mounted"} ELSE DriveStatus

\* ------------------------------------------------------------- file trees
\* Top-level names that occur in the checkout or on the runtime volume.
Names == {"code.py", "lib", ".DS_Store"}

NoEntry == [kind |-> "none", data |-> "", kids |-> {}]

FileEntry(tag) == [kind |-> "file", data |-> tag, kids |-> {}]

DirEntry(children) == [kind |-> "dir", data |-> "", kids |-> children]

\* The checkout that `git clone` leaves in copy_to_py/.
ClonedTree == [n \in Names |->
                 CASE n = "code.py" -> FileEntry("repo")
                   [] n = "lib" -> DirEntry({"a.py", "b.py"})
                   [] OTHER -> NoEntry]

EmptyVol == [n \in Names |-> NoEntry]

\* The runtime volume right after CircuitPython has been installed.
FactoryVol == [n \in Names |->
                 CASE n = "code.py" -> FileEntry("stale")
                   [] n = "lib" -> DirEntry({})
                   [] OTHER -> NoEntry]

\* Runtime volumes left over from earlier use of the board.
StaleVol == [n \in Names |->
               CASE n = "code.py" -> FileEntry("stale")
                 [] n = "lib" -> DirEntry({"a.py", "old.py"})
                 [] OTHER -> FileEntry("stale")]

StaleFileVol == [n \in Names |->
                   CASE n = "lib" -> FileEntry("stale")
                     [] OTHER -> NoEntry]

InitVols == {EmptyVol, StaleVol, StaleFileVol}

\* ----------------------------------------------------------- ledger file
\* json.dump / json.load on {"completed_steps": [...]}, as token sequences.
ParseError == [ok |-> FALSE, completed_steps |-> <<>>]

RECURSIVE DumpItems(_)
DumpItems(l) ==
    IF l = <<>> THEN <<>>
    ELSE IF Len(l) = 1 THEN <<l[1]>>
    ELSE <<l[1], ",">> \o DumpItems(Tail(l))

\* A buggy dump that writes only the newest step.
DumpsLastOnly(st) ==
    <<"{", "completed_steps", ":", "[">>
        \o (IF st.completed_steps = <<>> THEN <<>>
            ELSE <<st.completed_steps[Len(st.completed_steps)]>>)
        \o <<"]", "}">>

Dumps(st) ==
    <<"{", "completed_steps", ":", "[">> \o DumpItems(st.completed_steps) \o <<"]", "}">>

RECURSIVE ParseItems(_)
\* The items of a comma-separated list, or <<"!">> when it is malformed.
ParseItems(t) ==
    IF t = <<>> THEN <<"!">>
    ELSE IF t[1] \in {",", "[", "]", "{", "}", ":"} THEN <<"!">>
    ELSE IF Len(t) = 1 THEN <<t[1]>>
    ELSE IF t[2] # "," THEN <<"!">>
    ELSE LET rest == ParseItems(Tail(Tail(t)))
         IN IF rest = <<"!">> THEN <<"!">> ELSE <<t[1]>> \o rest

Parse(t) ==
    IF Len(t) < 6 THEN ParseError
    ELSE IF SubSeq(t, 1, 4) # <<"{", "completed_steps", ":", "[">> THEN ParseError
    ELSE IF SubSeq(t, Len(t) - 1, Len(t)) # <<"]", "}">> THEN ParseError
    ELSE LET mid == SubSeq(t, 5, Len(t) - 2)
         IN IF mid = <<>> THEN [ok |-> TRUE, completed_steps |-> <<>>]
            ELSE LET items == ParseItems(mid)
                 IN IF items = <<"!">> THEN ParseError
                    ELSE [ok |-> TRUE, completed_steps |-> items]

NoFile == [exists |-> FALSE, text |-> <<>>]

\* A buggy load that ignores the file.
LoadStateFresh(f) == [ok |-> TRUE, completed_steps |-> <<>>]

\* load_state: the parsed file, the empty ledger when there is none; ok = FALSE
\* stands for json.load raising.
LoadState(f) ==
    IF f.exists THEN Parse(f.text) ELSE [ok |-> TRUE, completed_steps |-> <<>>]

Range(s) == {s[i] : i \in 1..Len(s)}

\* A buggy membership test that never finds the step.
HasCompletedNever(st, s) == FALSE

\* "<step>" in self.state["completed_steps"]
HasCompleted(st, s) == s \in Range(st.completed_steps)


\* os.path.exists(path)
PathExists(s) == s # "absent"

\* A buggy probe that reports every path as available.
DriveAvailableAlways(s) == TRUE

\* os.path.exists(drive_path) and os.path.ismount(drive_path)
DriveAvailable(s) == s = "mounted"

\* A buggy branch that flashes exactly when the runtime volume is there.
SkipFlashInverted(s) == s = "absent"

\* run(): the test that sends the run to the branch without flash_device
SkipFlash(s) == PathExists(s)

\* A buggy loop test that gives up one polling round early.
WaitContinueEarly(elapsed, timeout) == elapsed + 1 < timeout

\* wait_for_drive: while time.time() - start_time < timeout
WaitContinue(elapsed, timeout) == elapsed < timeout

\* A buggy detection that returns at once.
AfterSettleNone(elapsed) == elapsed

\* wait_for_drive: time.sleep(2) once the drive has been detected
AfterSettle(elapsed) == elapsed + SettleDelay

\* A buggy polling round that lets no time pass.
AfterPollNone(elapsed) == elapsed

\* wait_for_drive: time.sleep(1) at the end of a polling round
AfterPoll(elapsed) == elapsed + PollInterval

\* A buggy fetch that downloads whether or not the file is there.
NeedsDownloadAlways(f, c) == TRUE

\* download_file: not os.path.exists(filename)
NeedsDownload(f, c) == f \notin c

\* A buggy cleanup that removes the first artifact only.
AfterCleanupFirst(c) == c \ {Files[1]}

\* cleanup: every configured artifact file that exists is removed
AfterCleanup(c) == c \ FileSet

\* main(): the exit status of the process.  run() returned: main returns, 0.
\* PermissionError: the hint is printed and main returns, 0.  Any other
\* Exception: sys.exit(1).
ExitStatus(p, e) ==
    IF p = "DONE" THEN 0
    ELSE IF e = "PermissionDenied" THEN 0
    ELSE 1

\* A buggy loop that stops after the first artifact.
FlashLoopDoneFirst(i) == i > 1

\* flash_device: the for loop over config["files"] is exhausted
FlashLoopDone(i) == i > Len(Files)

\* A buggy directory copy that merges into what is there.
MergeDir(src, dst) == IF dst.kind = "dir" THEN DirEntry(src.kids \cup dst.kids) ELSE src

\* copy_files: shutil.rmtree(dest) when it exists, then shutil.copytree(item, dest)
ReplaceDir(src, dst) == src

\* copy_files: shutil.copy2(item, dest); a dest directory receives the file
CopyFile(src, dst, n) ==
    IF dst.kind = "dir" THEN [dst EXCEPT !.kids = @ \cup {n}] ELSE src

\* copy_files: item.name == ".DS_Store"
IsMetadata(n) == n = ".DS_Store"

\* ------------------------------------------------------------------ state
VARIABLES
    pc,           \* position of the process; "idle" when no process runs
    state,        \* self.state, the ledger in memory
    phase,        \* the phase run() is in: the step identifier it would mark
    branch,       \* which branch of run() was taken: "skip" or "flash"
    fileIdx,      \* flash_device: index of the artifact being processed
    todo,         \* copy_files: entries of the checkout still to visit
    wDrive,       \* wait_for_drive: drive_path
    wElapsed,     \* wait_for_drive: time.time() - start_time
    wRet,         \* wait_for_drive: where the call returns to
    wResult,      \* wait_for_drive: "none", "True" or "raised"
    ledgerFile,   \* setup_state.json on disk
    repoExists,   \* the checkout folder exists
    repoTree,     \* the entries of the checkout
    cache,        \* artifact files that exist locally
    status,       \* what the OS reports for each volume path
    circVol,      \* entries under the runtime volume path
    device,       \* firmware on the board: "unknown", "nuked", "circuitpython"
    run,          \* invocations so far
    trace,        \* orchestrator states this run went through
    calls,        \* external effects of this run, counted
    destSeen,     \* os.path.exists(circuitpy drive) as run() saw it
    emptyAtStart, \* this run started with no ledger, checkout or artifact
    succeeded,    \* steps whose phase has run to its end, in any run
    err,          \* the error that ended the run
    copiedBoot,   \* artifacts copy_to_drive has copied in this flash_device call
    copiedNames,  \* names copy_files has copied in this call
    wSeenAt,      \* wait_for_drive: elapsed time at detection, -1 before
    wEverAvail    \* the awaited drive was available at some time of this call

mem == <<state, phase, branch, fileIdx, todo>>
waitv == <<wDrive, wElapsed, wRet, wResult, wSeenAt, wEverAvail>>
disk == <<ledgerFile, repoExists, repoTree, cache>>
hw == <<status, circVol, device>>
runGhost == <<trace, calls, destSeen, emptyAtStart, err, copiedBoot, copiedNames>>
vars == <<pc, mem, waitv, disk, hw, run, runGhost, succeeded>>

NoCalls == [clone |-> 0, waitBoot |-> 0, waitCirc |-> 0, pass |-> 0, cleanup |-> 0,
            download |-> [f \in FileSet |-> 0], copy |-> [f \in FileSet |-> 0]]

EmptyState == [completed_steps |-> <<>>]

WaitPcs == {"wait_loop", "wait_probe", "wait_settle"}

Init ==
    /\ pc = "idle"
    /\ state = EmptyState
    /\ phase = "none"
    /\ branch = "none"
    /\ fileIdx = 1
    /\ todo = {}
    /\ wDrive = "bootloader"
    /\ wElapsed = 0
    /\ wRet = "none"
    /\ wResult = "none"
    /\ wSeenAt = -1
    /\ wEverAvail = FALSE
    /\ ledgerFile = NoFile
    /\ repoExists = FALSE
    /\ repoTree = EmptyVol
    /\ cache = {}
    /\ status \in {f \in [Drives -> DriveStatus] : \A d \in Drives : f[d] \in StatusOf(d)}
    /\ circVol \in InitVols
    /\ device = "unknown"
    /\ run = 0
    /\ trace = <<>>
    /\ calls = NoCalls
    /\ destSeen = FALSE
    /\ emptyAtStart = FALSE
    /\ succeeded = {}
    /\ err = "none"
    /\ copiedBoot = {}
    /\ copiedNames = {}

\* What a process that has ended leaves of its memory: nothing.
ResetMem ==
    /\ state' = EmptyState
    /\ phase' = "none"
    /\ branch' = "none"
    /\ fileIdx' = 1
    /\ todo' = {}
    /\ wDrive' = "bootloader"
    /\ wElapsed' = 0
    /\ wRet' = "none"
    /\ wResult' = "none"
    /\ wSeenAt' = -1
    /\ wEverAvail' = FALSE

ResetGhost ==
    /\ trace' = <<>>
    /\ calls' = NoCalls
    /\ destSeen' = FALSE
    /\ emptyAtStart' = FALSE
    /\ err' = "none"
    /\ copiedBoot' = {}
    /\ copiedNames' = {}

\* A buggy handler that swallows the error: the phase seems to have returned.
FailSwallowed(kind) ==
    /\ pc' = "phase_ret"
    /\ err' = kind
    /\ trace' = trace

\* An exception leaves the phase: run() prints "Setup failed" and re-raises.
Fail(kind) ==
    /\ pc' = "FAILED"
    /\ err' = kind
    /\ trace' = Append(trace, "FAILED")

\* The call self.wait_for_drive(d): start_time = time.time()
CallWait(d, ret) ==
    /\ pc' = "wait_loop"
    /\ wDrive' = d
    /\ wElapsed' = 0
    /\ wRet' = ret
    /\ wResult' = "none"
    /\ wSeenAt' = -1
    /\ wEverAvail' = (status[d] = "mounted")
    /\ calls' = IF d = "bootloader" THEN [calls EXCEPT !.waitBoot = @ + 1]
                ELSE [calls EXCEPT !.waitCirc = @ + 1]


\* ---------------------------------------------------------------- process
\* main(): PicoDuckySetup() is constructed; __init__ loads the ledger.
Invoke ==
    /\ pc = "idle"
    /\ run < MaxRuns
    /\ run' = run + 1
    /\ LET loaded == LoadState(ledgerFile)
       IN IF loaded.ok
          THEN /\ pc' = "START"
               /\ state' = [completed_steps |-> loaded.completed_steps]
               /\ trace' = <<"START">>
               /\ err' = "none"
          ELSE /\ pc' = "load_failed"
               /\ state' = EmptyState
               /\ trace' = <<>>
               /\ err' = "JSONDecodeError"
    /\ emptyAtStart' = (~ledgerFile.exists /\ ~repoExists /\ cache = {})
    /\ calls' = NoCalls
    /\ destSeen' = FALSE
    /\ copiedBoot' = {}
    /\ copiedNames' = {}
    /\ UNCHANGED <<phase, branch, fileIdx, todo, waitv, disk, hw, succeeded>>

\* run(): os.path.exists(circuitpy drive) chooses the branch; both branches
\* begin with setup_repo().
RunStart ==
    /\ pc = "START"
    /\ destSeen' = PathExists(status["circuitpy"])
    /\ branch' = IF SkipFlash(status["circuitpy"]) THEN "skip" ELSE "flash"
    /\ phase' = "repo_setup"
    /\ pc' = "phase_entry"
    /\ UNCHANGED <<state, fileIdx, todo, waitv, disk, hw, run, succeeded,
                   trace, calls, emptyAtStart, err, copiedBoot, copiedNames>>

\* A phase whose step is in the ledger returns at once.
PhaseSkip ==
    /\ pc = "phase_entry"
    /\ HasCompleted(state, phase)
    /\ pc' = "phase_ret"
    /\ UNCHANGED <<mem, waitv, disk, hw, run, runGhost, succeeded>>

\* setup_repo: the folder is absent and git clone succeeds.
SetupRepoClone ==
    /\ pc = "phase_entry" /\ phase = "repo_setup"
    /\ ~HasCompleted(state, "repo_setup")
    /\ ~repoExists
    /\ repoExists' = TRUE
    /\ repoTree' = ClonedTree
    /\ calls' = [calls EXCEPT !.clone = @ + 1]
    /\ pc' = "mark"
    /\ UNCHANGED <<mem, waitv, ledgerFile, cache, hw, run, succeeded,
                   trace, destSeen, emptyAtStart, err, copiedBoot, copiedNames>>

\* setup_repo: git clone returns non-zero; run_command raises.
SetupRepoCloneFails ==
    /\ pc = "phase_entry" /\ phase = "repo_setup"
    /\ ~HasCompleted(state, "repo_setup")
    /\ ~repoExists
    /\ Fail("CommandFailure")
    /\ UNCHANGED <<mem, waitv, disk, hw, run, succeeded,
                   calls, destSeen, emptyAtStart, copiedBoot, copiedNames>>

\* setup_repo: the folder is there already; nothing is cloned.
SetupRepoPresent ==
    /\ pc = "phase_entry" /\ phase = "repo_setup"
    /\ ~HasCompleted(state, "repo_setup")
    /\ repoExists
    /\ pc' = "mark"
    /\ UNCHANGED <<mem, waitv, disk, hw, run, runGhost, succeeded>>

\* self.state["completed_steps"].append(<step>), the line before save_state().
MarkCompleted ==
    /\ pc = "mark"
    /\ state' = [completed_steps |-> Append(state.completed_steps, phase)]
    /\ pc' = "save_open"
    /\ UNCHANGED <<phase, branch, fileIdx, todo, waitv, disk, hw, run, runGhost, succeeded>>

\* save_state: open('setup_state.json', 'w') creates or truncates the file.
SaveOpen ==
    /\ pc = "save_open"
    /\ ledgerFile' = [exists |-> TRUE, text |-> <<>>]
    /\ pc' = "save_write"
    /\ UNCHANGED <<mem, waitv, repoExists, repoTree, cache, hw, run, runGhost, succeeded>>

\* save_state: open raises PermissionError; the file is as it was.
SaveOpenDenied ==
    /\ pc = "save_open"
    /\ Fail("PermissionDenied")
    /\ UNCHANGED <<mem, waitv, disk, hw, run, succeeded,
                   calls, destSeen, emptyAtStart, copiedBoot, copiedNames>>

\* save_state: json.dump and the close that flushes it; the phase is at its end.
SaveWrite ==
    /\ pc = "save_write"
    /\ ledgerFile' = [exists |-> TRUE, text |-> Dumps(state)]
    /\ succeeded' = succeeded \cup {phase}
    /\ pc' = "phase_ret"
    /\ UNCHANGED <<mem, waitv, repoExists, repoTree, cache, hw, run, runGhost>>

\* run(): setup_repo() has returned; flash_device() or copy_files() is next.
AfterSetupRepo ==
    /\ pc = "phase_ret" /\ phase = "repo_setup"
    /\ trace' = Append(trace, "REPO_READY")
    /\ phase' = IF branch = "skip" THEN "files_copied" ELSE "device_flashed"
    /\ pc' = "phase_entry"
    /\ UNCHANGED <<state, branch, fileIdx, todo, waitv, disk, hw, run, succeeded,
                   calls, destSeen, emptyAtStart, err, copiedBoot, copiedNames>>

\* run(): flash_device() has returned; copy_files() is next.
AfterFlashDevice ==
    /\ pc = "phase_ret" /\ phase = "device_flashed"
    /\ trace' = Append(trace, "FLASHED")
    /\ phase' = "files_copied"
    /\ pc' = "phase_entry"
    /\ UNCHANGED <<state, branch, fileIdx, todo, waitv, disk, hw, run, succeeded,
                   calls, destSeen, emptyAtStart, err, copiedBoot, copiedNames>>

\* run(): copy_files() has returned; "Setup completed successfully".
AfterCopyFiles ==
    /\ pc = "phase_ret" /\ phase = "files_copied"
    /\ trace' = Append(trace, "FILES_COPIED")
    /\ phase' = "none"
    /\ pc' = "cleanup"
    /\ UNCHANGED <<state, branch, fileIdx, todo, waitv, disk, hw, run, succeeded,
                   calls, destSeen, emptyAtStart, err, copiedBoot, copiedNames>>

\* cleanup: every artifact file that exists is removed; run() returns.
Cleanup ==
    /\ pc = "cleanup"
    /\ cache' = AfterCleanup(cache)
    /\ calls' = [calls EXCEPT !.cleanup = @ + 1]
    /\ trace' = Append(trace, "DONE")
    /\ pc' = "DONE"
    /\ UNCHANGED <<mem, waitv, ledgerFile, repoExists, repoTree, hw, run, succeeded,
                   destSeen, emptyAtStart, err, copiedBoot, copiedNames>>

\* cleanup: os.remove raises on an artifact file; those before it are gone.
CleanupFails ==
    /\ pc = "cleanup"
    /\ \E i \in 1..Len(Files) :
         /\ Files[i] \in cache
         /\ cache' = cache \ {Files[j] : j \in 1..(i - 1)}
    /\ calls' = [calls EXCEPT !.cleanup = @ + 1]
    /\ Fail("PermissionDenied")
    /\ UNCHANGED <<mem, waitv, ledgerFile, repoExists, repoTree, hw, run, succeeded,
                   destSeen, emptyAtStart, copiedBoot, copiedNames>>

\* main(): run() has returned or raised (or the constructor raised); the
\* matching clause of main decides the exit status.
MainReturn ==
    /\ pc \in {"DONE", "FAILED", "load_failed"}
    /\ pc' = IF ExitStatus(pc, err) = 0 THEN "exit_0" ELSE "exit_1"
    /\ UNCHANGED <<mem, waitv, disk, hw, run, runGhost, succeeded>>

\* The process has exited.
Exit ==
    /\ pc \in {"exit_0", "exit_1"}
    /\ pc' = "idle"
    /\ ResetMem
    /\ ResetGhost
    /\ UNCHANGED <<disk, hw, run, succeeded>>

\* The process is terminated from outside, wherever it is.
Kill ==
    /\ pc \notin {"idle", "DONE", "FAILED", "load_failed", "exit_0", "exit_1"}
    /\ pc' = "idle"
    /\ ResetMem
    /\ ResetGhost
    /\ UNCHANGED <<disk, hw, run, succeeded>>


\* ---------------------------------------------------------- wait_for_drive
\* The loop test holds: the body runs once more.
WaitLoop ==
    /\ pc = "wait_loop"
    /\ WaitContinue(wElapsed, Timeout)
    /\ pc' = "wait_probe"
    /\ UNCHANGED <<mem, waitv, disk, hw, run, runGhost, succeeded>>

\* The loop test fails: raise RuntimeError("Timeout waiting for drive").
WaitTimeout ==
    /\ pc = "wait_loop"
    /\ ~WaitContinue(wElapsed, Timeout)
    /\ wResult' = "raised"
    /\ Fail("DriveTimeout")
    /\ UNCHANGED <<mem, wDrive, wElapsed, wRet, wSeenAt, wEverAvail, disk, hw, run,
                   succeeded, calls, destSeen, emptyAtStart, copiedBoot, copiedNames>>

\* The drive is there and mounted.
WaitProbeFound ==
    /\ pc = "wait_probe"
    /\ DriveAvailable(status[wDrive])
    /\ wSeenAt' = wElapsed
    /\ pc' = "wait_settle"
    /\ UNCHANGED <<mem, wDrive, wElapsed, wRet, wResult, wEverAvail, disk, hw, run,
                   runGhost, succeeded>>

\* The drive is not there: time.sleep(1).
WaitProbeMissing ==
    /\ pc = "wait_probe"
    /\ ~DriveAvailable(status[wDrive])
    /\ wElapsed' = AfterPoll(wElapsed)
    /\ pc' = "wait_loop"
    /\ UNCHANGED <<mem, wDrive, wRet, wResult, wSeenAt, wEverAvail, disk, hw, run,
                   runGhost, succeeded>>

\* time.sleep(2), then return True.
WaitSettle ==
    /\ pc = "wait_settle"
    /\ wElapsed' = AfterSettle(wElapsed)
    /\ wResult' = "True"
    /\ pc' = wRet
    /\ UNCHANGED <<mem, wDrive, wRet, wSeenAt, wEverAvail, disk, hw, run,
                   runGhost, succeeded>>

\* ------------------------------------------------------------ flash_device
FlashEnter ==
    /\ pc = "phase_entry" /\ phase = "device_flashed"
    /\ ~HasCompleted(state, "device_flashed")
    /\ fileIdx' = 1
    /\ copiedBoot' = {}
    /\ pc' = "flash_loop"
    /\ UNCHANGED <<state, phase, branch, todo, waitv, disk, hw, run, succeeded,
                   trace, calls, destSeen, emptyAtStart, err, copiedNames>>

\* The next artifact: wait for the bootloader drive.
FlashNext ==
    /\ pc = "flash_loop"
    /\ ~FlashLoopDone(fileIdx)
    /\ CallWait("bootloader", "flash_download")
    /\ UNCHANGED <<mem, disk, hw, run, succeeded,
                   trace, destSeen, emptyAtStart, err, copiedBoot, copiedNames>>

\* No artifact is left: the step is marked.
FlashLoopExit ==
    /\ pc = "flash_loop"
    /\ FlashLoopDone(fileIdx)
    /\ pc' = "mark"
    /\ UNCHANGED <<mem, waitv, disk, hw, run, runGhost, succeeded>>

\* download_file: the file exists, nothing is fetched; copy_to_drive begins
\* with its own wait.
FlashDownloadCached ==
    /\ pc = "flash_download"
    /\ wResult = "True"
    /\ ~NeedsDownload(Files[fileIdx], cache)
    /\ CallWait("bootloader", "c2d_copy")
    /\ UNCHANGED <<mem, disk, hw, run, succeeded,
                   trace, destSeen, emptyAtStart, err, copiedBoot, copiedNames>>

\* download_file: the file is absent and curl succeeds.
FlashDownloadFetch ==
    /\ pc = "flash_download"
    /\ wResult = "True"
    /\ NeedsDownload(Files[fileIdx], cache)
    /\ cache' = cache \cup {Files[fileIdx]}
    /\ pc' = "wait_loop"
    /\ wDrive' = "bootloader"
    /\ wElapsed' = 0
    /\ wRet' = "c2d_copy"
    /\ wResult' = "none"
    /\ wSeenAt' = -1
    /\ wEverAvail' = (status["bootloader"] = "mounted")
    /\ calls' = [calls EXCEPT !.download[Files[fileIdx]] = @ + 1, !.waitBoot = @ + 1]
    /\ UNCHANGED <<mem, ledgerFile, repoExists, repoTree, hw, run, succeeded,
                   trace, destSeen, emptyAtStart, err, copiedBoot, copiedNames>>

\* download_file: curl returns non-zero.
FlashDownloadFails ==
    /\ pc = "flash_download"
    /\ wResult = "True"
    /\ NeedsDownload(Files[fileIdx], cache)
    /\ calls' = [calls EXCEPT !.download[Files[fileIdx]] = @ + 1]
    /\ Fail("CommandFailure")
    /\ UNCHANGED <<mem, waitv, disk, hw, run, succeeded,
                   destSeen, emptyAtStart, copiedBoot, copiedNames>>

\* What the board does with a UF2 image that lands on its bootloader volume.
FirmwareAfter(f, dev) == IF f = "flash_nuke.uf2" THEN "nuked" ELSE "circuitpython"

VolumeAfter(f, vol) == IF f = "flash_nuke.uf2" THEN EmptyVol ELSE FactoryVol

\* copy_to_drive: shutil.copy2(src, dest_drive) succeeds.
CopyToDrive ==
    /\ pc = "c2d_copy"
    /\ wResult = "True"
    /\ PathExists(status["bootloader"])
    /\ copiedBoot' = copiedBoot \cup {Files[fileIdx]}
    /\ calls' = [calls EXCEPT !.copy[Files[fileIdx]] = @ + 1]
    /\ IF status["bootloader"] = "mounted"
       THEN /\ device' = FirmwareAfter(Files[fileIdx], device)
            /\ circVol' = VolumeAfter(Files[fileIdx], circVol)
       ELSE UNCHANGED <<device, circVol>>
    /\ pc' = "c2d_settle"
    /\ UNCHANGED <<mem, waitv, disk, status, run, succeeded,
                   trace, destSeen, emptyAtStart, err, copiedNames>>

\* copy_to_drive: shutil.copy2 raises (the path is gone, or may not be written).
CopyToDriveFails ==
    /\ pc = "c2d_copy"
    /\ wResult = "True"
    /\ Fail("PermissionDenied")
    /\ UNCHANGED <<mem, waitv, disk, hw, run, succeeded,
                   calls, destSeen, emptyAtStart, copiedBoot, copiedNames>>

\* time.sleep(2) in copy_to_drive, time.sleep(5) in flash_device; next artifact.
FlashSettle ==
    /\ pc = "c2d_settle"
    /\ fileIdx' = fileIdx + 1
    /\ pc' = "flash_loop"
    /\ UNCHANGED <<state, phase, branch, todo, waitv, disk, hw, run, runGhost, succeeded>>

\* -------------------------------------------------------------- copy_files
CopyFilesEnter ==
    /\ pc = "phase_entry" /\ phase = "files_copied"
    /\ ~HasCompleted(state, "files_copied")
    /\ copiedNames' = {}
    /\ CallWait("circuitpy", "copy_iter")
    /\ UNCHANGED <<mem, disk, hw, run, succeeded,
                   trace, destSeen, emptyAtStart, err, copiedBoot>>

\* source_folder.iterdir(): the entries of the checkout, in no fixed order.
CopyIterStart ==
    /\ pc = "copy_iter"
    /\ wResult = "True"
    /\ repoExists
    /\ todo' = {n \in Names : repoTree[n].kind # "none"}
    /\ calls' = [calls EXCEPT !.pass = @ + 1]
    /\ pc' = "copy_item"
    /\ UNCHANGED <<state, phase, branch, fileIdx, waitv, disk, hw, run, succeeded,
                   trace, destSeen, emptyAtStart, err, copiedBoot, copiedNames>>

\* The metadata file is passed over.
CopyItemSkip ==
    /\ pc = "copy_item"
    /\ \E n \in todo :
         /\ IsMetadata(n)
         /\ todo' = todo \ {n}
    /\ UNCHANGED <<pc, state, phase, branch, fileIdx, waitv, disk, hw, run,
                   runGhost, succeeded>>

\* A directory: the destination is removed if it exists, then the tree is copied.
CopyItemDir ==
    /\ pc = "copy_item"
    /\ PathExists(status["circuitpy"])
    /\ \E n \in todo :
         /\ ~IsMetadata(n)
         /\ repoTree[n].kind = "dir"
         /\ circVol[n].kind # "file"
         /\ circVol' = [circVol EXCEPT ![n] = ReplaceDir(repoTree[n], circVol[n])]
         /\ copiedNames' = copiedNames \cup {n}
         /\ todo' = todo \ {n}
    /\ UNCHANGED <<pc, state, phase, branch, fileIdx, waitv, disk, status, device, run,
                   succeeded, trace, calls, destSeen, emptyAtStart, err, copiedBoot>>

\* A directory whose destination is a file: shutil.rmtree raises.
CopyItemNotADir ==
    /\ pc = "copy_item"
    /\ PathExists(status["circuitpy"])
    /\ \E n \in todo :
         /\ ~IsMetadata(n)
         /\ repoTree[n].kind = "dir"
         /\ circVol[n].kind = "file"
    /\ Fail("OSError")
    /\ UNCHANGED <<mem, waitv, disk, hw, run, succeeded,
                   calls, destSeen, emptyAtStart, copiedBoot, copiedNames>>

\* A file: shutil.copy2(item, dest).
CopyItemFile ==
    /\ pc = "copy_item"
    /\ PathExists(status["circuitpy"])
    /\ \E n \in todo :
         /\ ~IsMetadata(n)
         /\ repoTree[n].kind = "file"
         /\ circVol' = [circVol EXCEPT ![n] = CopyFile(repoTree[n], circVol[n], n)]
         /\ copiedNames' = copiedNames \cup {n}
         /\ todo' = todo \ {n}
    /\ UNCHANGED <<pc, state, phase, branch, fileIdx, waitv, disk, status, device, run,
                   succeeded, trace, calls, destSeen, emptyAtStart, err, copiedBoot>>

\* A copy raises (the volume is gone, or may not be written).
CopyItemFails ==
    /\ pc = "copy_item"
    /\ \E n \in todo : ~IsMetadata(n)
    /\ Fail("PermissionDenied")
    /\ UNCHANGED <<mem, waitv, disk, hw, run, succeeded,
                   calls, destSeen, emptyAtStart, copiedBoot, copiedNames>>

\* Every entry has been visited: the step is marked.
CopyFilesDone ==
    /\ pc = "copy_item"
    /\ todo = {}
    /\ pc' = "mark"
    /\ UNCHANGED <<mem, waitv, disk, hw, run, runGhost, succeeded>>

\* ------------------------------------------------------------ environment
\* A volume is plugged in, unplugged, mounted or unmounted.
DriveChange ==
    \E d \in Drives :
      \E s \in StatusOf(d) :
        /\ s # status[d]
        /\ status' = [status EXCEPT ![d] = s]
        /\ wEverAvail' = (wEverAvail \/ (pc \in WaitPcs /\ d = wDrive /\ s = "mounted"))
        /\ UNCHANGED <<pc, mem, wDrive, wElapsed, wRet, wResult, wSeenAt, disk,
                       circVol, device, run, runGhost, succeeded>>

\* The desktop writes its metadata file into the checkout.
FinderTouch ==
    /\ repoExists
    /\ repoTree[".DS_Store"].kind = "none"
    /\ repoTree' = [repoTree EXCEPT ![".DS_Store"] = FileEntry("meta")]
    /\ UNCHANGED <<pc, mem, waitv, ledgerFile, repoExists, cache, hw, run,
                   runGhost, succeeded>>

Next ==
    \/ Invoke
    \/ RunStart
    \/ PhaseSkip
    \/ SetupRepoClone
    \/ SetupRepoCloneFails
    \/ SetupRepoPresent
    \/ MarkCompleted
    \/ SaveOpen
    \/ SaveOpenDenied
    \/ SaveWrite
    \/ AfterSetupRepo
    \/ AfterFlashDevice
    \/ AfterCopyFiles
    \/ Cleanup
    \/ CleanupFails
    \/ MainReturn
    \/ Exit
    \/ Kill
    \/ WaitLoop
    \/ WaitTimeout
    \/ WaitProbeFound
    \/ WaitProbeMissing
    \/ WaitSettle
    \/ FlashEnter
    \/ FlashNext
    \/ FlashLoopExit
    \/ FlashDownloadCached
    \/ FlashDownloadFetch
    \/ FlashDownloadFails
    \/ CopyToDrive
    \/ CopyToDriveFails
    \/ FlashSettle
    \/ CopyFilesEnter
    \/ CopyIterStart
    \/ CopyItemSkip
    \/ CopyItemDir
    \/ CopyItemNotADir
    \/ CopyItemFile
    \/ CopyItemFails
    \/ CopyFilesDone
    \/ DriveChange
    \/ FinderTouch

Spec == Init /\ [][Next]_vars

\* The steps of a running process, from the entry of run() to the exit.
ProgStep ==
    \/ RunStart \/ PhaseSkip
    \/ SetupRepoClone \/ SetupRepoCloneFails \/ SetupRepoPresent
    \/ MarkCompleted \/ SaveOpen \/ SaveOpenDenied \/ SaveWrite
    \/ AfterSetupRepo \/ AfterFlashDevice \/ AfterCopyFiles
    \/ Cleanup \/ CleanupFails \/ MainReturn \/ Exit
    \/ WaitLoop \/ WaitTimeout \/ WaitProbeFound \/ WaitProbeMissing \/ WaitSettle
    \/ FlashEnter \/ FlashNext \/ FlashLoopExit
    \/ FlashDownloadCached \/ FlashDownloadFetch \/ FlashDownloadFails
    \/ CopyToDrive \/ CopyToDriveFails \/ FlashSettle
    \/ CopyFilesEnter \/ CopyIterStart \/ CopyItemSkip \/ CopyItemDir
    \/ CopyItemNotADir \/ CopyItemFile \/ CopyItemFails \/ CopyFilesDone

\* A process that is not terminated from outside keeps taking steps.
SpecFair == Spec /\ WF_vars(ProgStep)

\* ------------------------------------------------------------- scenario A
\* One run in an empty environment with the runtime volume absent at the start:
\* external commands and copies succeed, nobody terminates the process, and
\* each awaited volume appears before the deadline of the wait.
InitA ==
    /\ Init
    /\ status["circuitpy"] = "absent"

InvokeA == Invoke /\ run = 0

\* The awaited volume is still missing, and the deadline is not reached yet.
WaitProbeMissingA == WaitProbeMissing /\ wElapsed' < Timeout

\* The awaited volume is mounted while wait_for_drive polls for it.
DriveAppears ==
    /\ pc \in WaitPcs
    /\ status[wDrive] # "mounted"
    /\ DriveChange
    /\ status'[wDrive] = "mounted"

\* The board leaves the bootloader once an image has been copied onto it.
BoardReboots ==
    /\ pc = "c2d_settle"
    /\ status["bootloader"] # "absent"
    /\ DriveChange
    /\ status'["bootloader"] = "absent"

NextA ==
    \/ InvokeA
    \/ RunStart
    \/ SetupRepoClone
    \/ MarkCompleted
    \/ SaveOpen
    \/ SaveWrite
    \/ AfterSetupRepo
    \/ AfterFlashDevice
    \/ AfterCopyFiles
    \/ Cleanup
    \/ WaitLoop
    \/ WaitProbeFound
    \/ WaitProbeMissingA
    \/ WaitSettle
    \/ FlashEnter
    \/ FlashNext
    \/ FlashLoopExit
    \/ FlashDownloadFetch
    \/ CopyToDrive
    \/ FlashSettle
    \/ CopyFilesEnter
    \/ CopyIterStart
    \/ CopyItemSkip
    \/ CopyItemDir
    \/ CopyItemFile
    \/ CopyFilesDone
    \/ DriveAppears
    \/ BoardReboots
    \/ FinderTouch

\* The process keeps running and the volumes appear: a step that stays possible
\* is taken.
SpecA == InitA /\ [][NextA]_vars /\ WF_vars(NextA)


\* ------------------------------------------------------------- properties
\* The step identifiers a fresh load of the ledger file reports; none when
\* the file cannot be loaded.
FileLedger(f) == Range(LoadState(f).completed_steps)

InLedger(s) == s \in Range(state.completed_steps)

IsPrefix(s, t) == Len(s) <= Len(t) /\ SubSeq(t, 1, Len(s)) = s

ExpectedA == <<"START", "REPO_READY", "FLASHED", "FILES_COPIED", "DONE">>

ExpectedB == <<"START", "REPO_READY", "FILES_COPIED", "DONE">>

\* C1: a phase entered with its step identifier in the loaded ledger returns at
\* once and changes nothing: not the ledger in memory or on disk, not the
\* checkout, the artifacts or the volumes, and no clone, download, wait or copy
\* is made.
C1_SkipIsPure ==
    [][(pc = "phase_entry" /\ phase \in Steps /\ InLedger(phase) /\ pc' \notin {pc, "idle"})
        => (/\ pc' = "phase_ret"
            /\ UNCHANGED <<state, ledgerFile, repoExists, repoTree, cache, circVol,
                           device, calls, copiedBoot, copiedNames>>)]_vars

C1_Witness ==
    /\ pc = "phase_ret"
    /\ phase = "device_flashed"
    /\ InLedger("device_flashed")
    /\ calls.waitBoot = 0

C3_LedgerLoadableAtStart ==
    /\ pc # "load_failed"
    /\ pc = "START" => Range(state.completed_steps) = succeeded

\* A run that starts in an empty environment and sees the runtime volume absent
\* goes through START, REPO_READY, FLASHED, FILES_COPIED, DONE in this order (up
\* to the point where an error ends it), never does any external operation
\* twice, and at DONE has done each exactly once.
C4_ScenarioA ==
    (emptyAtStart /\ branch # "none" /\ ~destSeen) =>
        /\ IsPrefix(IF err = "none" THEN trace ELSE SubSeq(trace, 1, Len(trace) - 1),
                    ExpectedA)
        /\ calls.clone <= 1 /\ calls.pass <= 1 /\ calls.cleanup <= 1
        /\ \A f \in FileSet : calls.download[f] <= 1 /\ calls.copy[f] <= 1
        /\ pc = "DONE" =>
             /\ trace = ExpectedA
             /\ calls.clone = 1 /\ calls.pass = 1 /\ calls.cleanup = 1
             /\ \A f \in FileSet : calls.download[f] = 1 /\ calls.copy[f] = 1

C4_Done ==
    /\ pc = "DONE"
    /\ trace = ExpectedA
    /\ calls.clone = 1 /\ calls.pass = 1 /\ calls.cleanup = 1
    /\ \A f \in FileSet : calls.download[f] = 1 /\ calls.copy[f] = 1

\* C4: in scenario A the run reaches DONE, having gone through START,
\* REPO_READY, FLASHED, FILES_COPIED, DONE in this order and having made one
\* clone, one download and one copy of each artifact, one pass over the project
\* files and one cleanup; on the way no operation is made twice.
C4_ScenarioARun == [](C4_ScenarioA) /\ <>(C4_Done)

C4_Witness ==
    /\ pc = "DONE"
    /\ emptyAtStart
    /\ ~destSeen
    /\ trace = ExpectedA
    /\ calls.copy = [f \in FileSet |-> 1]

\* C5: in a run that saw the runtime volume path present at START the flashing
\* phase is never entered, nothing is waited for, downloaded or copied on the
\* bootloader side, device_flashed is not added to the ledger, and FLASHED is
\* not passed; and the flashing phase is entered only in runs that saw the
\* path absent.
C5_SkipFlashWhenDestPresent ==
    [][/\ (branch' # "none" /\ destSeen') =>
            /\ phase' # "device_flashed"
            /\ calls'.waitBoot = 0
            /\ \A f \in FileSet : calls'.download[f] = 0 /\ calls'.copy[f] = 0
            /\ "FLASHED" \notin Range(trace')
            /\ ("device_flashed" \in Range(state'.completed_steps))
                  <=> ("device_flashed" \in Range(state.completed_steps))
            /\ "device_flashed" \in FileLedger(ledgerFile')
                  => "device_flashed" \in Range(state'.completed_steps)
       /\ phase' = "device_flashed" => (branch' # "none" /\ ~destSeen')]_vars

C5_Witness ==
    /\ pc = "DONE"
    /\ destSeen
    /\ trace = ExpectedB
    /\ calls.pass = 1

\* C6: when a phase has marked its step and save_state has returned, a fresh
\* load_state succeeds and returns the ledger in memory: the step just marked
\* and every step completed before it.
C6_RoundTrip ==
    pc = "phase_ret" =>
        /\ LoadState(ledgerFile).ok
        /\ LoadState(ledgerFile).completed_steps = state.completed_steps
        /\ phase \in FileLedger(ledgerFile)

C6_Witness ==
    /\ pc = "phase_ret"
    /\ phase = "files_copied"
    /\ calls.pass = 1
    /\ Len(state.completed_steps) = 3
    /\ FileLedger(ledgerFile) = Steps

\* C7: device_flashed enters the ledger in memory only in flash_device and only
\* when every configured artifact has been copied in this execution of it; and
\* while flash_device is under way or has failed with an artifact not copied,
\* the ledger file does not hold device_flashed.
C7_FlashedOnlyAfterAllCopied ==
    [][/\ (pc # "idle" /\ ~InLedger("device_flashed")
             /\ "device_flashed" \in Range(state'.completed_steps))
            => (phase = "device_flashed" /\ copiedBoot = FileSet)
       /\ (phase' = "device_flashed" /\ pc' \notin {"phase_entry", "phase_ret"}
             /\ copiedBoot' # FileSet)
            => "device_flashed" \notin FileLedger(ledgerFile')]_vars

C7_Witness ==
    /\ pc = "phase_ret"
    /\ phase = "device_flashed"
    /\ copiedBoot = FileSet
    /\ "device_flashed" \in FileLedger(ledgerFile)

\* C8: wait_for_drive raises its timeout no earlier than `timeout` seconds and
\* no later than `timeout` plus one polling interval after the call began; a
\* call during which the path was never available ends in no other way; and
\* the call never returns a false value.
C8_TimeoutWindow ==
    /\ wResult \in {"none", "True", "raised"}
    /\ wResult = "raised" => (wElapsed >= Timeout /\ wElapsed <= Timeout + PollInterval)
    /\ (wResult # "none" /\ ~wEverAvail) => wResult = "raised"

C8_Witness ==
    /\ pc = "FAILED"
    /\ err = "DriveTimeout"
    /\ wResult = "raised"
    /\ ~wEverAvail
    /\ wElapsed = Timeout

\* C9: wait_for_drive has returned True only if it saw the path mounted (and
\* the path was mounted at some time of the call) and the settle delay has
\* passed since; at the moment of detection it has not returned.
C9_SettleBeforeSuccess ==
    /\ wResult = "True" =>
         /\ wSeenAt >= 0
         /\ wEverAvail
         /\ wElapsed >= wSeenAt + SettleDelay
    /\ pc = "wait_settle" => (wResult = "none" /\ wSeenAt = wElapsed)

C9_Witness ==
    /\ wResult = "True"
    /\ wSeenAt > 0
    /\ wElapsed = wSeenAt + SettleDelay

\* C10: once copy_files has visited every entry, each directory of the checkout
\* is on the runtime volume with exactly the checkout's entries, whatever was
\* there before; and .DS_Store is never among the names copied.
C10_DirectoryReplace ==
    /\ ".DS_Store" \notin copiedNames
    /\ (phase = "files_copied" /\ pc \in {"mark", "save_open", "save_write", "phase_ret"}
          /\ calls.pass = 1)
         => \A n \in Names : repoTree[n].kind = "dir" => circVol[n] = repoTree[n]

C10_Witness ==
    /\ pc = "phase_ret"
    /\ phase = "files_copied"
    /\ calls.pass = 1
    /\ "lib" \in copiedNames
    /\ circVol[".DS_Store"] = FileEntry("stale")
    /\ repoTree[".DS_Store"].kind = "file"
    /\ circVol["lib"] = DirEntry({"a.py", "b.py"})


\* The original reading of the last sentence: whenever a run ends in FAILED,
\* cleanup was not executed in it and no cached artifact was deleted.
C11_CleanupNeverInFailedRun ==
    [][pc' = "FAILED" => (calls'.cleanup = 0 /\ cache \subseteq cache')]_vars

\* C11: cleanup is executed only when the project-file phase has returned
\* without error (FILES_COPIED was the last state passed); it changes nothing
\* but the cached artifact files, leaving the checkout, the ledger file and
\* the ledger in memory as they were; a run that reaches DONE leaves no
\* configured artifact file behind; nothing but cleanup deletes an artifact;
\* and a run that ends in FAILED through an error raised before cleanup
\* started has not executed cleanup and has deleted no artifact.
C11_CleanupFrame ==
    [][/\ calls'.cleanup > calls.cleanup =>
            /\ pc = "cleanup"
            /\ err = "none"
            /\ trace[Len(trace)] = "FILES_COPIED"
            /\ cache' \subseteq cache
            /\ UNCHANGED <<state, ledgerFile, repoExists, repoTree>>
       /\ ~(cache \subseteq cache') => pc = "cleanup"
       /\ pc' = "DONE" => cache' \cap FileSet = {}
       /\ (pc' = "FAILED" /\ trace'[Len(trace') - 1] # "FILES_COPIED") =>
            (calls'.cleanup = 0 /\ cache \subseteq cache')]_vars

\* The second run found the first artifact kept by the run before it, which
\* had not reached cleanup, downloaded the other, and removed both at the end.
C11_Witness ==
    /\ pc = "DONE"
    /\ run = 2
    /\ calls.download[Files[1]] = 0
    /\ calls.copy[Files[1]] = 1
    /\ calls.download[Files[2]] = 1
    /\ calls.cleanup = 1
    /\ cache = {}
    /\ repoExists
    /\ FileLedger(ledgerFile) = Steps


\* C12: the step of download_file runs the external download exactly when the
\* named file is not in the working directory: with the file absent the
\* download is invoked once and, unless it fails, the file exists afterwards;
\* with the file present nothing is invoked and nothing changes on disk; and
\* within one flashing phase no artifact is downloaded more than once.
C12_DownloadIffAbsent ==
    [][(pc = "flash_download" /\ pc' \notin {pc, "idle"}) =>
         /\ IF Files[fileIdx] \in cache
            THEN /\ calls'.download = calls.download
                 /\ cache' = cache
                 /\ pc' = "wait_loop"
            ELSE /\ calls'.download =
                        [calls.download EXCEPT ![Files[fileIdx]] = @ + 1]
                 /\ \/ pc' = "wait_loop" /\ cache' = cache \cup {Files[fileIdx]}
                    \/ pc' = "FAILED" /\ cache' = cache
         /\ \A f \in FileSet : calls'.download[f] <= 1]_vars

\* download_file has just returned without fetching an artifact that was kept
\* from an earlier run, and copy_to_drive begins.
C12_Witness ==
    /\ pc = "wait_loop"
    /\ wRet = "c2d_copy"
    /\ wElapsed = 0
    /\ Files[fileIdx] \in cache
    /\ calls.download[Files[fileIdx]] = 0


\* C13: the step in which a phase raises an error ends the run in FAILED at
\* once, with the error recorded for the caller; from FAILED on, the process
\* executes no phase, no cleanup and no retry (the ledger, the artifacts, the
\* volumes' contents and the operation counts stay as they are) and its only
\* step is the return of the error to main, which ends the process; a run that
\* failed in a phase has executed no cleanup.
C13_ErrorAborts ==
    [][/\ (pc # "idle" /\ err = "none" /\ err' # "none") =>
            (pc' = "FAILED" /\ trace' = Append(trace, "FAILED"))
       /\ (pc' = "FAILED") = (err' # "none" /\ pc' \notin {"load_failed", "exit_0", "exit_1"})
       /\ (pc' = "FAILED" /\ pc \notin {"cleanup", "FAILED"}) => calls'.cleanup = 0
       /\ pc = "FAILED" =>
            /\ pc' \in {"FAILED", "exit_0", "exit_1"}
            /\ UNCHANGED <<state, phase, ledgerFile, repoExists, cache, circVol,
                           device, calls, copiedBoot, copiedNames, trace, err>>
       /\ pc \in {"exit_0", "exit_1"} => pc' \in {pc, "idle"}]_vars

\* The wait for the bootloader volume timed out in the flashing phase; the
\* error reached main, and neither the project-file phase nor cleanup ran.
C13_Witness ==
    /\ pc = "exit_1"
    /\ err = "DriveTimeout"
    /\ phase = "device_flashed"
    /\ trace = <<"START", "REPO_READY", "FAILED">>
    /\ calls.pass = 0
    /\ calls.cleanup = 0
    /\ calls.waitBoot = 1


\* C14: a re-invocation after a run that failed or was terminated, at whatever
\* point, starts a run with the ledger of the phases completed so far, skips
\* every phase recorded in it, and when it reaches DONE files_copied is in the
\* ledger file.
C14_Resumable ==
    [][/\ (pc = "idle" /\ run >= 1 /\ pc' # "idle") =>
            (pc' = "START" /\ Range(state'.completed_steps) = succeeded)
       /\ (pc = "phase_entry" /\ phase \in Steps /\ InLedger(phase)
             /\ pc' \notin {pc, "idle"}) => pc' = "phase_ret"
       /\ pc' = "DONE" => "files_copied" \in FileLedger(ledgerFile')]_vars


\* C15: the run takes the branch without the flashing phase only when the
\* runtime volume is available in the sense of wait_for_drive, that is when
\* its path exists and is a mount point.
C15_SkipOnlyWhenMounted ==
    [][(pc = "START" /\ branch' = "skip") =>
          DriveAvailable(status["circuitpy"])]_vars


C17_RunTerminates ==
    /\ (pc = "START") ~> (pc \in {"DONE", "FAILED", "idle"})
    /\ [](pc \in {"exit_0", "exit_1"} =>
            \/ trace = <<>> /\ err = "JSONDecodeError"
            \/ trace # <<>> /\ trace[Len(trace)] \in {"DONE", "FAILED"})

\* The runtime volume never appeared during the wait of the project-file phase:
\* the wait ended at its deadline and the run in FAILED.
C17_Witness ==
    /\ pc = "FAILED"
    /\ err = "DriveTimeout"
    /\ phase = "files_copied"
    /\ wDrive = "circuitpy"
    /\ ~wEverAvail
    /\ wElapsed >= Timeout
    /\ trace = <<"START", "REPO_READY", "FLASHED", "FAILED">>


\* A ledger holds only the three step identifiers, each at most once, and a
\* later step only together with repo_setup.
WellFormed(steps) ==
    /\ Range(steps) \subseteq Steps
    /\ Cardinality(Range(steps)) = Len(steps)
    /\ Range(steps) \cap {"device_flashed", "files_copied"} # {} =>
          "repo_setup" \in Range(steps)

\* C18: through any sequence of runs, completed, failed or interrupted, the
\* ledger in memory and the ledger in the file are well formed; the ledger in
\* memory only grows while the process lives; and the ledger in the file,
\* outside the rewrite of save_state, still holds every step recorded before.
C18_LedgerWellFormed ==
    [][/\ WellFormed(state'.completed_steps)
       /\ WellFormed(LoadState(ledgerFile').completed_steps)
       /\ (pc # "idle" /\ pc' # "idle") =>
             IsPrefix(state.completed_steps, state'.completed_steps)
       /\ pc' # "save_write" => succeeded' \subseteq FileLedger(ledgerFile')]_vars


\* C19: once files_copied is in the ledger no run enters the body of the
\* flashing phase; and a run that reaches DONE after having copied an image
\* onto the board has copied the project files after it.
C19_NoFlashAfterFilesCopied ==
    [][/\ (pc = "phase_entry" /\ phase = "device_flashed" /\ pc' = "flash_loop") =>
            "files_copied" \notin FileLedger(ledgerFile)
       /\ (pc' = "DONE" /\ copiedBoot' # {}) => calls'.pass = 1]_vars


\* C20: the process ends with exit status 0 only after a run that reached DONE;
\* after a run that ended in FAILED, whatever the error, the status is not 0.
C20_ExitStatusReflectsOutcome ==
    pc = "exit_0" => (trace # <<>> /\ trace[Len(trace)] = "DONE" /\ err = "none")

====
